---- MODULE Spec2Model ----
(***************************************************************************)
(* Model of isambard/modelling/create_loop_database.py: process_pdb_files  *)
(* (the chunked, fault-tolerant loop-database builder) and                 *)
(* fault_tolerant_gather (the wrapper that turns an extractor exception    *)
(* into a (path, exception) tuple).                                        *)
(*                                                                         *)
(* One run of process_pdb_files is a state machine whose positions (pc)    *)
(* are the lines of the function.  The inputs of the run (the list of      *)
(* paths, what the external extractor gather_loops_from_pdb does for each  *)
(* path, the number of processes, the verbose flag) are chosen in Init.    *)
(***************************************************************************)
EXTENDS Integers, Sequences, FiniteSets, TLC

\* ------------------------------------------------------------- bounds ----
\* Largest number of input paths of a run.
MaxFiles == 4
\* Largest number of loops the extractor returns for one file.
MaxRecs == 2
\* Width of a chunk.  The source slices by 100 (lines 84-85); the model
\* scales the width down so that several chunks, a short last chunk and an
\* exact multiple all occur within MaxFiles paths.
ChunkSize == 2

\* The width the source slices by (lines 84-85), used by SpecSourceWidth.
SourceChunkSize == 100

\* Exceptions (subclasses of Exception) the extractor may raise.
Errors == {"ValueError", "KeyError"}
\* Values of the processes argument: sequential and pooled.
ProcessChoices == {1, 4}

VARIABLES
    data_file_paths, \* argument: the list of paths (line 59)
    ext,             \* behaviour of gather_loops_from_pdb for every path
    processes,       \* argument (line 60)
    verbose,         \* argument (line 60)
    pc,              \* position of the run in process_pdb_files
    failure,         \* what ended the run abnormally ("none" if nothing did)
    db_stats,        \* the statistics dictionary (lines 78-83)
    data_chunks,     \* the list of chunks (lines 84-85)
    ci,              \* index of the chunk the for loop of line 86 is at
    running,         \* indices of the chunk handed to the pool, not yet back
    results,         \* index of the chunk -> what fault_tolerant_gather returned
    items,           \* what itertools.chain(*loop_lists) still yields (line 93)
    pending,         \* objects added to the session, not yet committed
    db,              \* rows of table loops in the database file
    stdout,          \* lines printed so far
    started,         \* history: paths whose extraction has started
    commitLog,       \* history: chunks whose commit was attempted, in order
    round,           \* number of the run (see Rerun)
    prev,            \* outcome of the previous run (see Rerun)
    width,           \* width of the slices of lines 84-85
    tables           \* tables that exist in the database file

vars == <<data_file_paths, ext, processes, verbose, pc, failure, db_stats,
          data_chunks, ci, running, results, items, pending, db, stdout,
          started, commitLog, round, prev, width, tables>>

inputs == <<data_file_paths, ext, verbose, width>>

\* ------------------------------------------------------------ helpers ----
Min(a, b) == IF a < b THEN a ELSE b

\* Python's s[a:b] for 0 <= a <= b, on a list held as a 1-based sequence.
Slice(s, a, b) ==
    LET hi == Min(b, Len(s))
    IN  IF hi <= a THEN << >> ELSE [j \in 1..(hi - a) |-> s[a + j]]

\* Range0 with the number of starts rounded down: a short last slice is lost.
Range0_floor(n, step) ==
    [c \in 1..(n \div step) |-> (c - 1) * step]

\* Python's range(0, n, step) as a sequence.
Range0(n, step) ==
    [c \in 1..((n + step - 1) \div step) |-> (c - 1) * step]

\* ChunkList with the slice one path too wide: neighbouring chunks overlap.
ChunkList_wide(p) ==
    LET starts == Range0(Len(p), width)
    IN  [c \in 1..Len(starts) |-> Slice(p, starts[c], starts[c] + width + 1)]

\* Lines 84-85: [data_file_paths[i:i + 100] for i in range(0, len(...), 100)]
ChunkList(p) ==
    LET starts == Range0(Len(p), width)
    IN  [c \in 1..Len(starts) |-> Slice(p, starts[c], starts[c] + width)]

RECURSIVE Chain(_)
\* itertools.chain(*lists): the elements of the lists, list after list.
Chain(lists) ==
    IF lists = << >> THEN << >> ELSE Head(lists) \o Chain(Tail(lists))

\* A loop dictionary returned by the extractor: the j-th loop of file f.
LoopDict(f, j) == [kind |-> "dict", path |-> f, val |-> j, ex |-> "none"]

\* The outcome of a call: a returned value, or an exception that propagates
\* to the caller.
Returned(v) == [raised |-> FALSE, ex |-> "none", value |-> v]
Raised(e) == [raised |-> TRUE, ex |-> e, value |-> << >>]

\* The (path, exception) tuple of line 118.
FailureTuple(path, e) == [kind |-> "tuple", path |-> path, val |-> 0, ex |-> e]

\* A record that is a pair instead of a dictionary: the j-th of file f.
PairRecord(f, j) == [kind |-> "tuple", path |-> f, val |-> j, ex |-> "none"]

\* The external extractor called at line 116 (imported at line 14): for
\* path f it returns a list of records (loop dictionaries, unless the
\* behaviour chosen for f says pairs) or raises an exception.
gather_loops_from_pdb(f) ==
    IF ext[f].raises
    THEN Raised(ext[f].err)
    ELSE Returned([j \in 1..ext[f].n |->
                      IF ext[f].shape = "tuple" THEN PairRecord(f, j)
                      ELSE LoopDict(f, j)])

\* Line 117: "except Exception" catches every subclass of Exception.
IsException(e) == e \in Errors

\* fault_tolerant_gather with a handler for ValueError alone: any other
\* exception leaves the function.
fault_tolerant_gather_narrow(path) ==
    LET call == gather_loops_from_pdb(path)
    IN  IF call.raised /\ call.ex = "ValueError"
        THEN Returned(<< FailureTuple(path, call.ex) >>)
        ELSE call

\* Lines 113-119.
fault_tolerant_gather(path) ==
    LET call == gather_loops_from_pdb(path)
    IN  IF call.raised /\ IsException(call.ex)
        THEN Returned(<< FailureTuple(path, call.ex) >>)
        ELSE call

\* Line 95: isinstance(loop, tuple)
IsTuple(loop) == loop.kind = "tuple"

\* Staged with a failure tuple discarding what the session holds.
Staged_rollback(pend, loop) == IF IsTuple(loop) THEN << >> ELSE Append(pend, loop)

\* Lines 95-104: what the session holds after one pass of the inner loop;
\* a failure tuple is skipped (continue), a loop dictionary is added.
Staged(pend, loop) == IF IsTuple(loop) THEN pend ELSE Append(pend, loop)

\* Line 106: the rows of the table after the commit of the session.
Committed(rows, pend) == rows \o pend

\* The rows of the table as a set.
Rows(table) == {table[i] : i \in DOMAIN table}

\* Lines 98-101: the line printed for a failed file.
FailureNotice(path, exc) ==
    IF verbose
    THEN [line |-> "Failed to process", path |-> path, detail |-> exc]
    ELSE [line |-> "Failed to process", path |-> path, detail |-> "none"]

\* Lines 107-109: the final summary line.
SummaryLine(stats) ==
    [line |-> "Finished processing", path |-> 0, detail |-> "none",
     stats |-> stats]

ZeroStats == [total_pdbs |-> 0, succeeded |-> 0, failed |-> 0, total_loops |-> 0]

\* The chunk the loop is at (the loop variable paths of line 86).
paths == data_chunks[ci]

\* The list loop_lists of lines 89/91, once every element is available.
loop_lists == [i \in 1..Len(paths) |-> results[i]]

NoResult == << [kind |-> "none", path |-> 0, val |-> 0, ex |-> "none"] >>

\* ---------------------------------------------------------------- Init ----
ExtChoices ==
    {[raises |-> TRUE, err |-> e, n |-> 0, shape |-> "dict"] : e \in Errors}
    \cup {[raises |-> FALSE, err |-> "none", n |-> k, shape |-> "dict"] :
             k \in 0..MaxRecs}

\* The behaviours of an extractor whose records may also be pairs.
ExtChoicesAnyShape ==
    ExtChoices
    \cup {[raises |-> FALSE, err |-> "none", n |-> k, shape |-> "tuple"] :
             k \in 1..MaxRecs}

\* The run has not started: nothing is computed, extracted or printed, and
\* output_path names no database yet.
InitControl ==
    /\ pc = "start"
    /\ failure = "none"
    /\ db_stats = ZeroStats
    /\ data_chunks = << >>
    /\ ci = 0
    /\ running = {}
    /\ results = << >>
    /\ items = << >>
    /\ pending = << >>
    /\ db = << >>
    /\ stdout = << >>
    /\ started = {}
    /\ commitLog = << >>
    /\ round = 1
    /\ prev = [stats |-> ZeroStats, rows |-> {}, table |-> << >>]
    /\ tables = {}

Init ==
    /\ \E n \in 0..MaxFiles :
          /\ data_file_paths = [i \in 1..n |-> i]
          /\ ext \in [1..n -> ExtChoices]
    /\ processes \in ProcessChoices
    /\ verbose \in BOOLEAN
    /\ width = ChunkSize
    /\ InitControl

\* ------------------------------------------------------------- actions ----
\* create_all issuing CREATE TABLE without looking for the table first
\* (checkfirst=False): the statement fails on a table that exists.
create_all_nocheck(existing) ==
    IF "loops" \in existing
    THEN Raised("OperationalError")
    ELSE Returned(existing \cup {"loops"})

\* Line 75: BASE.metadata.create_all(engine) creates the tables of the
\* metadata (table loops, lines 20-36) that the database does not have yet.
create_all(existing) == Returned(existing \cup {"loops"})

\* Lines 74-85: engine, schema, session, statistics, chunks.
Setup ==
    /\ pc = "start"
    /\ LET call == create_all(tables)
       IN  IF call.raised
           THEN /\ pc' = "aborted"
                /\ failure' = "create_all"
                /\ UNCHANGED <<tables, db_stats, data_chunks, ci>>
           ELSE /\ tables' = call.value
                /\ db_stats' = ZeroStats
                /\ data_chunks' = ChunkList(data_file_paths)
                /\ ci' = 1
                /\ pc' = "for"
                /\ UNCHANGED failure
    /\ UNCHANGED <<inputs, processes, running, results, items, pending, db,
                   stdout, started, commitLog, round, prev>>

\* Line 75 raising: the schema cannot be created.
SetupFail ==
    /\ pc = "start"
    /\ pc' = "aborted"
    /\ failure' = "schema"
    /\ UNCHANGED <<inputs, tables, processes, db_stats, data_chunks, ci, running,
                   results, items, pending, db, stdout, started, commitLog,
                   round, prev>>

\* Lines 86-89, processes > 1: the pool is created and pool.map hands every
\* path of the chunk to the workers.
PoolMap ==
    /\ pc = "for"
    /\ ci <= Len(data_chunks)
    /\ processes > 1
    /\ running' = 1..Len(paths)
    /\ results' = [i \in 1..Len(paths) |-> NoResult]
    /\ started' = started \cup {paths[i] : i \in 1..Len(paths)}
    /\ pc' = "pool_map"
    /\ UNCHANGED <<inputs, tables, processes, failure, db_stats, data_chunks, ci,
                   items, pending, db, stdout, commitLog, round, prev>>

\* WorkerFinish with the results collected in the order of completion (as
\* imap_unordered does): the result goes to the first free position.
WorkerFinish_unordered(i) ==
    /\ pc = "pool_map"
    /\ i \in running
    /\ running' = running \ {i}
    /\ LET call == fault_tolerant_gather(paths[i])
           k == Len(paths) - Cardinality(running) + 1
       IN  IF call.raised
           THEN /\ pc' = "aborted"
                /\ failure' = "extractor"
                /\ UNCHANGED results
           ELSE /\ results' = [results EXCEPT ![k] = call.value]
                /\ UNCHANGED <<pc, failure>>
    /\ UNCHANGED <<inputs, tables, processes, db_stats, data_chunks, ci, items,
                   pending, db, stdout, started, commitLog, round, prev>>

\* A worker returns the result of fault_tolerant_gather for one path; the
\* workers finish in any order.
WorkerFinish(i) ==
    /\ pc = "pool_map"
    /\ i \in running
    /\ running' = running \ {i}
    /\ LET call == fault_tolerant_gather(paths[i])
       IN  IF call.raised
           THEN \* an exception of the mapped function is re-raised by pool.map
                /\ pc' = "aborted"
                /\ failure' = "extractor"
                /\ UNCHANGED results
           ELSE /\ results' = [results EXCEPT ![i] = call.value]
                /\ UNCHANGED <<pc, failure>>
    /\ UNCHANGED <<inputs, tables, processes, db_stats, data_chunks, ci, items,
                   pending, db, stdout, started, commitLog, round, prev>>

\* PoolReturns without the wait: the results are read while tasks may still
\* be running (an asynchronous map never waited for).
PoolReturns_early == TRUE

\* pool.map returns only when every task is back.
PoolReturns == running = {}

\* Line 89 returns and the with block closes the pool.
PoolJoin ==
    /\ pc = "pool_map"
    /\ PoolReturns
    /\ pc' = "count"
    /\ UNCHANGED <<inputs, tables, processes, failure, db_stats, data_chunks, ci,
                   running, results, items, pending, db, stdout, started,
                   commitLog, round, prev>>

\* A worker process dies while the chunk is being extracted.  pool.map then
\* either never returns (the task is lost) or raises in the parent.
WorkerCrash ==
    /\ pc = "pool_map"
    /\ running # {}
    /\ pc' \in {"hung", "aborted"}
    /\ failure' = "worker"
    /\ UNCHANGED <<inputs, tables, processes, db_stats, data_chunks, ci, running,
                   results, items, pending, db, stdout, started, commitLog,
                   round, prev>>

\* Lines 86-91, processes <= 1: map() is lazy, nothing is extracted yet.
LazyMap ==
    /\ pc = "for"
    /\ ci <= Len(data_chunks)
    /\ processes <= 1
    /\ results' = << >>
    /\ pc' = "count"
    /\ UNCHANGED <<inputs, tables, processes, failure, db_stats, data_chunks, ci,
                   running, items, pending, db, stdout, started, commitLog,
                   round, prev>>

\* Line 92.
CountChunk ==
    /\ pc = "count"
    /\ db_stats' = [db_stats EXCEPT !.total_pdbs = @ + Len(paths)]
    /\ pc' = "chain"
    /\ UNCHANGED <<inputs, tables, processes, failure, data_chunks, ci, running,
                   results, items, pending, db, stdout, started, commitLog,
                   round, prev>>

\* Line 93, processes <= 1: unpacking *loop_lists drives the lazy map, which
\* calls fault_tolerant_gather on the paths one after the other, in order.
SeqExtract ==
    /\ pc = "chain"
    /\ processes <= 1
    /\ Len(results) < Len(paths)
    /\ LET i == Len(results) + 1
           call == fault_tolerant_gather(paths[i])
       IN  /\ started' = started \cup {paths[i]}
           /\ IF call.raised
              THEN \* an exception of the mapped function leaves line 93
                   /\ pc' = "aborted"
                   /\ failure' = "extractor"
                   /\ UNCHANGED results
              ELSE /\ results' = Append(results, call.value)
                   /\ UNCHANGED <<pc, failure>>
    /\ UNCHANGED <<inputs, tables, processes, db_stats, data_chunks, ci, running,
                   items, pending, db, stdout, commitLog, round, prev>>

\* Line 93: itertools.chain over the per-file lists.
ChainLists ==
    /\ pc = "chain"
    /\ processes > 1 \/ Len(results) = Len(paths)
    /\ items' = Chain(loop_lists)
    /\ pc' = "body"
    /\ UNCHANGED <<inputs, tables, processes, failure, db_stats, data_chunks, ci,
                   running, results, pending, db, stdout, started, commitLog,
                   round, prev>>

\* Lines 93-105: one pass of the inner for loop.
LoopBody ==
    /\ pc = "body"
    /\ items # << >>
    /\ LET loop == Head(items)
       IN  IF IsTuple(loop)
           THEN /\ db_stats' = [db_stats EXCEPT !.total_loops = @ + 1,
                                                !.failed = @ + 1]
                /\ stdout' = Append(stdout, FailureNotice(loop.path, loop.ex))
           ELSE /\ db_stats' = [db_stats EXCEPT !.total_loops = @ + 1,
                                                !.succeeded = @ + 1]
                /\ UNCHANGED stdout
    /\ pending' = Staged(pending, Head(items))
    /\ items' = Tail(items)
    /\ UNCHANGED <<inputs, tables, processes, pc, failure, data_chunks, ci, running,
                   results, db, started, commitLog, round, prev>>

\* The inner loop is exhausted.
LoopEnd ==
    /\ pc = "body"
    /\ items = << >>
    /\ pc' = "commit"
    /\ UNCHANGED <<inputs, tables, processes, failure, db_stats, data_chunks, ci,
                   running, results, items, pending, db, stdout, started,
                   commitLog, round, prev>>

\* Commit with a session that keeps the written objects staged.
Commit_keepsPending ==
    /\ pc = "commit"
    /\ db' = Committed(db, pending)
    /\ commitLog' = Append(commitLog, [chunk |-> ci, ok |-> TRUE])
    /\ ci' = ci + 1
    /\ pc' = "for"
    /\ UNCHANGED <<inputs, tables, processes, failure, db_stats, data_chunks, running,
                   results, items, pending, stdout, started, round, prev>>

\* Line 106: session.commit() writes the pending objects in one transaction.
Commit ==
    /\ pc = "commit"
    /\ db' = Committed(db, pending)
    /\ pending' = << >>
    /\ commitLog' = Append(commitLog, [chunk |-> ci, ok |-> TRUE])
    /\ ci' = ci + 1
    /\ pc' = "for"
    /\ UNCHANGED <<inputs, tables, processes, failure, db_stats, data_chunks, running,
                   results, items, stdout, started, round, prev>>

\* CommitFail with the exception swallowed: the loop goes on with the next
\* chunk.
CommitFail_swallowed ==
    /\ pc = "commit"
    /\ commitLog' = Append(commitLog, [chunk |-> ci, ok |-> FALSE])
    /\ pc' = "for"
    /\ ci' = ci + 1
    /\ failure' = "commit"
    /\ UNCHANGED <<inputs, tables, processes, db_stats, data_chunks, running,
                   results, items, pending, db, stdout, started, round, prev>>

\* Line 106 raising: the transaction is rolled back and the exception leaves
\* process_pdb_files.
CommitFail ==
    /\ pc = "commit"
    /\ commitLog' = Append(commitLog, [chunk |-> ci, ok |-> FALSE])
    /\ pc' = "aborted"
    /\ failure' = "commit"
    /\ UNCHANGED <<inputs, tables, processes, db_stats, data_chunks, ci, running,
                   results, items, pending, db, stdout, started, round, prev>>

\* Summary printed inside the loop over the chunks: not held back until
\* the last chunk is committed.
Summary_early ==
    /\ pc = "for"
    /\ stdout' = Append(stdout, SummaryLine(db_stats))
    /\ pc' = "done"
    /\ UNCHANGED <<inputs, tables, processes, failure, db_stats, data_chunks, ci,
                   running, results, items, pending, db, started, commitLog,
                   round, prev>>

\* Lines 107-110: the loop over the chunks is over, the summary is printed.
Summary ==
    /\ pc = "for"
    /\ ci > Len(data_chunks)
    /\ stdout' = Append(stdout, SummaryLine(db_stats))
    /\ pc' = "done"
    /\ UNCHANGED <<inputs, tables, processes, failure, db_stats, data_chunks, ci,
                   running, results, items, pending, db, started, commitLog,
                   round, prev>>

Next ==
    \/ Setup
    \/ SetupFail
    \/ PoolMap
    \/ \E i \in 1..width : WorkerFinish(i)
    \/ PoolJoin
    \/ WorkerCrash
    \/ LazyMap
    \/ CountChunk
    \/ SeqExtract
    \/ ChainLists
    \/ LoopBody
    \/ LoopEnd
    \/ Commit
    \/ CommitFail
    \/ Summary

Spec == Init /\ [][Next]_vars

\* --------------------------------------------- two runs on the same input ----
\* process_pdb_files is called a second time (lines 53, 59-60) with the same
\* paths, the same extractor and a fresh output_path, this time with
\* processes > 1; prev keeps what the first run ended with.
Rerun ==
    /\ pc = "done"
    /\ round = 1
    /\ prev' = [stats |-> db_stats, rows |-> Rows(db), table |-> db]
    /\ round' = 2
    /\ processes' \in {p \in ProcessChoices : p > 1}
    /\ pc' = "start"
    /\ failure' = "none"
    /\ db_stats' = ZeroStats
    /\ data_chunks' = << >>
    /\ ci' = 0
    /\ running' = {}
    /\ results' = << >>
    /\ items' = << >>
    /\ pending' = << >>
    /\ db' = << >>
    /\ stdout' = << >>
    /\ started' = {}
    /\ commitLog' = << >>
    /\ tables' = {}
    /\ UNCHANGED inputs

InitSequential == Init /\ processes <= 1

NextTwoRuns == Next \/ Rerun

SpecTwoRuns == InitSequential /\ [][NextTwoRuns]_vars

\* ------------------------------------------- two runs on the same database ----
\* process_pdb_files is called again with the same arguments, output_path
\* included, after a run that ended with the summary or with an exception:
\* line 74 opens the database file the first run left, with its table and
\* its rows; prev keeps what the table held.
RerunSameStore ==
    /\ pc \in {"done", "aborted"}
    /\ round = 1
    /\ prev' = [stats |-> db_stats, rows |-> Rows(db), table |-> db]
    /\ round' = 2
    /\ pc' = "start"
    /\ failure' = "none"
    /\ db_stats' = ZeroStats
    /\ data_chunks' = << >>
    /\ ci' = 0
    /\ running' = {}
    /\ results' = << >>
    /\ items' = << >>
    /\ pending' = << >>
    /\ stdout' = << >>
    /\ started' = {}
    /\ commitLog' = << >>
    /\ UNCHANGED <<inputs, processes, db, tables>>

NextSameStore == Next \/ RerunSameStore

SpecSameStore == Init /\ [][NextSameStore]_vars

\* --------------------------------------------- records of any runtime shape ----
\* A run with an extractor whose records may be pairs.
InitAnyShape ==
    /\ \E n \in 0..MaxFiles :
          /\ data_file_paths = [i \in 1..n |-> i]
          /\ ext \in [1..n -> ExtChoicesAnyShape]
    /\ processes \in ProcessChoices
    /\ verbose \in BOOLEAN
    /\ width = ChunkSize
    /\ InitControl

SpecAnyShape == InitAnyShape /\ [][Next]_vars

\* ------------------------------------- a run without worker or storage failure ----
\* The steps of a run in which no worker dies and the store never fails.
NextNoFailure ==
    \/ Setup
    \/ PoolMap
    \/ \E i \in 1..width : WorkerFinish(i)
    \/ PoolJoin
    \/ LazyMap
    \/ CountChunk
    \/ SeqExtract
    \/ ChainLists
    \/ LoopBody
    \/ LoopEnd
    \/ Commit
    \/ Summary

\* The interpreter goes on executing process_pdb_files and the pool goes on
\* running its tasks: a step that can be taken is taken.
SpecNoFailure == Init /\ [][NextNoFailure]_vars /\ WF_vars(NextNoFailure)

\* ------------------------------------------ the width of the source: 100 ----
\* Numbers of input files around the multiples of the source's width.
ScenarioSizes == {0, 1, 100, 101, 250}

\* A sequential run that slices by 100, as lines 84-85 do, over files that
\* all return one loop.
InitSourceWidth ==
    /\ \E n \in ScenarioSizes :
          /\ data_file_paths = [i \in 1..n |-> i]
          /\ ext = [i \in 1..n |-> [raises |-> FALSE, err |-> "none", n |-> 1,
                                     shape |-> "dict"]]
    /\ processes = 1
    /\ verbose \in BOOLEAN
    /\ width = SourceChunkSize
    /\ InitControl

\* The steps of a run with processes <= 1.
NextSequential ==
    \/ Setup
    \/ SetupFail
    \/ LazyMap
    \/ CountChunk
    \/ SeqExtract
    \/ ChainLists
    \/ LoopBody
    \/ LoopEnd
    \/ Commit
    \/ CommitFail
    \/ Summary

SpecSourceWidth == InitSourceWidth /\ [][NextSequential]_vars

\* ------------------------------------------------- vocabulary of the claims ----
\* N: the number of input files submitted.
NumFiles == Len(data_file_paths)

\* The files for which the extractor raises; K is their number.
RaisingFiles == {f \in 1..NumFiles : ext[data_file_paths[f]].raises}
NumRaising == Cardinality(RaisingFiles)

RECURSIVE SumRecs(_)
\* The number of loops the extractor returns over the first n files, the
\* files for which it raises counting for nothing.
SumRecs(n) ==
    IF n = 0 THEN 0
    ELSE SumRecs(n - 1)
         + (IF ext[data_file_paths[n]].raises THEN 0
            ELSE ext[data_file_paths[n]].n)

\* The failure notices printed so far.
Notices == {i \in DOMAIN stdout : stdout[i].line = "Failed to process"}
\* The summary lines printed so far.
Summaries == {i \in DOMAIN stdout : stdout[i].line = "Finished processing"}

\* Setup has run: the chunks exist.
Chunked == ci >= 1

\* The chunk that holds the file at position f of the input list.
ChunkOf(f) == ((f - 1) \div width) + 1

\* The chunks whose commit has completed.
CommittedChunks == {commitLog[i].chunk : i \in {j \in DOMAIN commitLog : commitLog[j].ok}}

\* The positions of the input list that fall in chunk c.
FilesOfChunk(c) == {f \in 1..NumFiles : ChunkOf(f) = c}

\* The loops the extractor returns for the files of chunk c; a file for
\* which it raises has none.
ChunkRecords(c) ==
    UNION {{LoopDict(data_file_paths[f], j) : j \in 1..ext[data_file_paths[f]].n} :
              f \in {g \in FilesOfChunk(c) : ~ext[data_file_paths[g]].raises}}

\* ------------------------------------------------------------------ C1 ----
\* C1 (as claimed): a run over N files of which K raise during extraction,
\* with no worker or storage failure, ends with failed = K and
\* succeeded = N - K, and has printed exactly K failure notices.
C1_FaultIsolation ==
    pc = "done" =>
        /\ db_stats.failed = NumRaising
        /\ db_stats.succeeded = NumFiles - NumRaising
        /\ Cardinality(Notices) = NumRaising

\* ------------------------------------------------------------------ C2 ----
\* C2 (as claimed): at the final summary succeeded + failed = total_pdbs,
\* and total_pdbs is the number of files submitted.
C2_CountersAddUp ==
    pc = "done" =>
        /\ db_stats.succeeded + db_stats.failed = db_stats.total_pdbs
        /\ db_stats.total_pdbs = NumFiles

\* ------------------------------------------------------------------ C3 ----
\* C3 (as claimed): at run end total_loops is the sum of the numbers of
\* loops returned by the files whose extraction succeeded; a failed file
\* adds nothing.
C3_TotalLoops ==
    pc = "done" => db_stats.total_loops = SumRecs(NumFiles)

\* ------------------------------------------------------------------ C4 ----
\* C4: the chunks partition the input list: every chunk holds between 1 and
\* width paths, only the last may hold fewer than width, and the
\* chunks concatenated in order are the input list (no chunk for the empty
\* list).
C4_ChunkPartition ==
    Chunked =>
        /\ Chain(data_chunks) = data_file_paths
        /\ \A c \in DOMAIN data_chunks :
              /\ Len(data_chunks[c]) >= 1
              /\ Len(data_chunks[c]) <= width
              /\ c < Len(data_chunks) => Len(data_chunks[c]) = width
        /\ data_file_paths = << >> => data_chunks = << >>

\* A list whose length is no multiple of the chunk width has been chunked:
\* the last chunk is short.
C4_Witness ==
    /\ Chunked
    /\ Len(data_chunks) >= 2
    /\ Len(data_chunks[Len(data_chunks)]) < width

\* ------------------------------------------------------------------ C5 ----
\* C5: for the same input list and the same extractor behaviour, a run with
\* processes > 1 ends with the statistics and the set of persisted rows of
\* the run with processes = 1, whatever the order in which the workers of a
\* chunk finish.
C5_ParallelismTransparent ==
    (round = 2 /\ pc = "done") =>
        /\ db_stats = prev.stats
        /\ Rows(db) = prev.rows

\* A pooled second run has ended on an input with several chunks, a failing
\* file and persisted rows.
C5_Witness ==
    /\ round = 2
    /\ pc = "done"
    /\ processes > 1
    /\ Len(data_chunks) >= 2
    /\ RaisingFiles # {}
    /\ db # << >>

\* ------------------------------------------------------------------ C6 ----
\* C6: once the commit of a chunk has completed, the table holds every loop
\* returned by every successfully extracted file of that chunk, also when
\* other files of the chunk failed; until then it holds none of them.
C6_ChunkAllOrNothing ==
    Chunked =>
        \A c \in DOMAIN data_chunks :
            IF c \in CommittedChunks
            THEN ChunkRecords(c) \subseteq Rows(db)
            ELSE ChunkRecords(c) \cap Rows(db) = {}

\* A chunk with a failed file and a file that returned loops is committed.
C6_Witness ==
    /\ Chunked
    /\ \E c \in CommittedChunks :
          /\ \E f \in FilesOfChunk(c) : ext[data_file_paths[f]].raises
          /\ ChunkRecords(c) # {}
          /\ ChunkRecords(c) \subseteq Rows(db)

\* ------------------------------------------------------------------ C7 ----
\* What fault_tolerant_gather is claimed to hand back for path p: the
\* extractor's loops unchanged, or one failure tuple with p and the error.
ClaimedOutcome(p) ==
    IF ext[p].raises
    THEN << [kind |-> "tuple", path |-> p, val |-> 0, ex |-> ext[p].err] >>
    ELSE [j \in 1..ext[p].n |-> LoopDict(p, j)]

\* The positions of the run at which results holds the current chunk's lists.
Collecting == pc \in {"pool_map", "count", "chain", "body", "commit"}

\* C7: no failure of the extractor leaves fault_tolerant_gather: every list
\* collected for a path is the extractor's list of loops if it returned, and
\* otherwise the failure tuple carrying that path and the raised error; the
\* run is never ended by an extractor exception.
C7_GatherNeverRaises ==
    /\ failure # "extractor"
    /\ Collecting =>
          \A i \in DOMAIN results :
              i \notin running => results[i] = ClaimedOutcome(paths[i])

\* Both kinds of outcome have been collected for one chunk.
C7_Witness ==
    /\ pc = "body"
    /\ \E i \in DOMAIN results :
          /\ ext[paths[i]].raises
          /\ results[i] = << FailureTuple(paths[i], ext[paths[i]].err) >>
    /\ \E i \in DOMAIN results : Len(results[i]) = MaxRecs /\ ~ext[paths[i]].raises

\* ------------------------------------------------------------------ C8 ----
\* C8: the chunks are handled strictly one after the other: the extraction
\* of a file starts only when every earlier chunk is committed, no worker is
\* running (and every file of the chunk is extracted) when the commit of the
\* chunk starts, and the commits are made in the order of the chunks.
C8_ChunksSequential ==
    /\ \A f \in 1..NumFiles :
          data_file_paths[f] \in started
              => \A c \in 1..(ChunkOf(f) - 1) : c \in CommittedChunks
    /\ pc = "commit" =>
          /\ running = {}
          /\ \A f \in FilesOfChunk(ci) : data_file_paths[f] \in started
    /\ \A i \in DOMAIN commitLog : commitLog[i].chunk = i

\* The pool is extracting the second chunk after the first one's commit.
C8_Witness ==
    /\ pc = "pool_map"
    /\ ci = 2
    /\ running # {}
    /\ running # 1..Len(paths)
    /\ CommittedChunks = {1}

\* ------------------------------------------------------------------ C9 ----
\* C9: a failing commit ends the run: the failed attempt is the last commit
\* (no retry, no later commit), no file of a later chunk is extracted, the
\* table holds nothing of the failed or of a later chunk, and no summary is
\* printed.
C9_CommitFailureFatal ==
    failure = "commit" =>
        /\ pc = "aborted"
        /\ Summaries = {}
        /\ commitLog # << >>
        /\ commitLog[Len(commitLog)] = [chunk |-> ci, ok |-> FALSE]
        /\ \A i \in DOMAIN commitLog : commitLog[i].chunk = ci => i = Len(commitLog)
        /\ \A f \in 1..NumFiles :
              data_file_paths[f] \in started => ChunkOf(f) <= ci
        /\ \A c \in ci..Len(data_chunks) : ChunkRecords(c) \cap Rows(db) = {}

\* The commit of a chunk that has rows to write fails while a later chunk
\* is still waiting.
C9_Witness ==
    /\ failure = "commit"
    /\ ci < Len(data_chunks)
    /\ pending # << >>

\* ----------------------------------------------------------------- C10 ----
\* The files of the chunks the loop has left behind.
FilesOfEarlierChunks == Len(Chain(SubSeq(data_chunks, 1, ci - 1)))

\* The items of the current chunk the inner loop has consumed.
Consumed == Len(Chain(loop_lists)) - Len(items)

\* The files of the current chunk whose outcome the inner loop has gone
\* through: while the loop runs, the files all of whose items it has
\* consumed (a file that returned no loop has no item and counts once the
\* loop is over); all the files of the chunk once the loop is over.
FilesOfCurrentChunkDone ==
    IF pc = "body"
    THEN Cardinality({i \in 1..Len(paths) :
                         /\ loop_lists[i] # << >>
                         /\ Len(Chain(SubSeq(loop_lists, 1, i))) <= Consumed})
    ELSE IF pc = "commit" \/ failure = "commit" THEN Len(paths)
    ELSE 0

\* The files whose outcome has been processed so far.
FilesProcessed == FilesOfEarlierChunks + FilesOfCurrentChunkDone

\* C10 (as claimed): in every state of a run succeeded + failed is the
\* number of files whose outcome has been processed so far, and that number
\* never exceeds the number of files submitted.
C10_RunningCounters ==
    Chunked =>
        /\ db_stats.succeeded + db_stats.failed = FilesProcessed
        /\ FilesProcessed <= NumFiles

\* ----------------------------------------------------------------- C11 ----
\* Every file returns exactly one loop.
AllOneLoop ==
    \A f \in 1..NumFiles :
        ~ext[data_file_paths[f]].raises /\ ext[data_file_paths[f]].n = 1

\* C11: there is one commit per chunk: while the run goes, the completed
\* commits are those of the chunks the loop has left behind; at the summary
\* there are ceil(n / width) chunks and as many commits, all completed; and
\* when every file returned one loop the statistics are total_pdbs = n,
\* succeeded = n, failed = 0, total_loops = n.
C11_OneCommitPerChunk ==
    /\ (Chunked /\ failure = "none") =>
          /\ Len(commitLog) = ci - 1
          /\ \A i \in DOMAIN commitLog : commitLog[i] = [chunk |-> i, ok |-> TRUE]
    /\ pc = "done" =>
          /\ Len(data_chunks) = (NumFiles + width - 1) \div width
          /\ Len(commitLog) = Len(data_chunks)
          /\ AllOneLoop =>
                db_stats = [total_pdbs |-> NumFiles, succeeded |-> NumFiles,
                            failed |-> 0, total_loops |-> NumFiles]

\* 250 files sliced by 100: chunks of 100, 100 and 50, three commits, and
\* the statistics of the scenario.
C11_Witness ==
    /\ pc = "done"
    /\ width = 100
    /\ NumFiles = 250
    /\ [c \in DOMAIN data_chunks |-> Len(data_chunks[c])] = <<100, 100, 50>>
    /\ Len(commitLog) = 3
    /\ db_stats = [total_pdbs |-> 250, succeeded |-> 250, failed |-> 0,
                   total_loops |-> 250]
    /\ Len(db) = 250

\* ----------------------------------------------------------------- C12 ----
\* What a worker crash leaves behind: the chunk being extracted and the
\* later ones are never committed, nothing is summarised, and the loops of
\* the chunks committed before stay in the table.
CrashLeavesEarlierChunks ==
    failure = "worker" =>
        /\ \A c \in ci..Len(data_chunks) : c \notin CommittedChunks
        /\ \A c \in ci..Len(data_chunks) : ChunkRecords(c) \cap Rows(db) = {}
        /\ \A c \in 1..(ci - 1) :
              c \in CommittedChunks /\ ChunkRecords(c) \subseteq Rows(db)
        /\ Summaries = {}

\* C12 (as claimed): a worker dying while a chunk is extracted is not
\* isolated: it aborts the run (the failure leaves process_pdb_files), that
\* chunk and the later ones are never committed, no summary is printed, and
\* the chunks committed before remain persisted.
C12_WorkerCrashAborts ==
    /\ failure = "worker" => pc = "aborted"
    /\ CrashLeavesEarlierChunks

\* ----------------------------------------------------------------- C13 ----
\* C13: schema creation is idempotent: in a second run on the database of a
\* first run, create_all does not raise, table loops exists afterwards, and
\* every row the first run left is still in the table, unchanged and in
\* place, whatever the second run adds.
C13_SchemaIdempotent ==
    /\ failure # "create_all"
    /\ Chunked => "loops" \in tables
    /\ round = 2 =>
          /\ Len(db) >= Len(prev.table)
          /\ SubSeq(db, 1, Len(prev.table)) = prev.table

\* A second run on a database that held rows has gone through schema
\* creation and ended.
C13_Witness ==
    /\ round = 2
    /\ pc = "done"
    /\ prev.table # << >>
    /\ Len(db) > Len(prev.table)

\* ----------------------------------------------------------------- C14 ----
\* The files of the chunks up to c for which the extractor returned.
ReturnedUpTo(c) ==
    {f \in 1..NumFiles : ChunkOf(f) <= c /\ ~ext[data_file_paths[f]].raises}

\* C14 (as claimed): every file whose extraction returns, an empty list
\* included, adds exactly 1 to succeeded whatever the number of its loops,
\* and nothing to failed; it stages its loops and nothing else.  Read when
\* the inner loop has gone through a chunk: succeeded is the number of files
\* that returned so far, failed the number of files that raised, and the
\* session holds the loops of the chunk.
C14_SuccessPerFile ==
    pc = "commit" =>
        /\ db_stats.succeeded = Cardinality(ReturnedUpTo(ci))
        /\ db_stats.failed = Cardinality({f \in RaisingFiles : ChunkOf(f) <= ci})
        /\ Rows(pending) = ChunkRecords(ci)
        /\ Len(pending) = Cardinality(ChunkRecords(ci))

\* What the code does keep of C14: failed counts the files that raised and
\* the session holds exactly the loops of the chunk.
FailedAndStagedPerFile ==
    pc = "commit" =>
        /\ db_stats.failed = Cardinality({f \in RaisingFiles : ChunkOf(f) <= ci})
        /\ Rows(pending) = ChunkRecords(ci)
        /\ Len(pending) = Cardinality(ChunkRecords(ci))

\* ----------------------------------------------------------------- C15 ----
\* The number of records the extractor returns for the files of chunk c.
RecordsReturned(c) ==
    SumRecs(Min(c * width, NumFiles)) - SumRecs((c - 1) * width)

\* C15 (as claimed): an outcome is counted as failed exactly when the
\* extractor raised for the file, whatever the runtime shape of the records:
\* every failure notice names a file for which the extractor raised, and
\* when the inner loop has gone through a chunk failed is the number of
\* files that raised so far and every record the chunk's files returned is
\* staged.
C15_FailedIffRaised ==
    /\ \A i \in Notices : ext[stdout[i].path].raises
    /\ pc = "commit" =>
          /\ db_stats.failed = Cardinality({f \in RaisingFiles : ChunkOf(f) <= ci})
          /\ Len(pending) = RecordsReturned(ci)

\* ----------------------------------------------------------------- C16 ----
\* Every file of the current chunk has finished extraction and the call that
\* extracts the chunk is over.
ChunkExtracted ==
    /\ pc \in {"count", "chain", "body", "commit"}
    /\ running = {}
    /\ Len(results) = Len(paths)
    /\ \A i \in 1..Len(results) : results[i] # NoResult

C17_BoundedStaging ==
    /\ ~Chunked => pending = << >>
    /\ Chunked =>
          /\ Rows(pending) \subseteq ChunkRecords(ci)
          /\ Len(pending) = Cardinality(Rows(pending))
    /\ pc \in {"for", "pool_map", "count", "chain", "done"} => pending = << >>

\* The second chunk is being staged after the first one was committed.
C17_Witness ==
    /\ pc = "body"
    /\ ci >= 2
    /\ pending # << >>
    /\ db # << >>

\* ----------------------------------------------------------------- C18 ----
\* The items of the current chunk in the order of the input list.
ItemsInInputOrder == Chain([i \in 1..Len(paths) |-> ClaimedOutcome(paths[i])])

\* The position of path p in the input list.
PositionOf(p) == CHOOSE f \in 1..NumFiles : data_file_paths[f] = p

\* Record a comes before record b in the order of the input list.
Before(a, b) ==
    \/ PositionOf(a.path) < PositionOf(b.path)
    \/ a.path = b.path /\ a.val < b.val

\* C18: whatever the order in which the workers finish, every item of the
\* i-th collected result of a chunk comes from the i-th file of the chunk;
\* the inner loop goes through the items in the order of the input list, so
\* the records are staged and written in that order, the failure notices
\* appear in that order, and each notice names a file for which the
\* extractor raised.
C18_ResultsInInputOrder ==
    /\ Collecting =>
          \A i \in DOMAIN results :
              i \notin running =>
                  \A k \in DOMAIN results[i] : results[i][k].path = paths[i]
    /\ pc = "body" =>
          /\ Len(items) <= Len(ItemsInInputOrder)
          /\ items = SubSeq(ItemsInInputOrder,
                            Len(ItemsInInputOrder) - Len(items) + 1,
                            Len(ItemsInInputOrder))
    /\ LET written == db \o pending
       IN  \A i, j \in DOMAIN written : i < j => Before(written[i], written[j])
    /\ \A i \in Notices :
          /\ ext[stdout[i].path].raises
          /\ \A j \in Notices :
                i < j => PositionOf(stdout[i].path) < PositionOf(stdout[j].path)

\* In a pooled run the second file of a chunk has finished before the first
\* one, and its result is at the second position.
C18_Witness ==
    /\ pc = "pool_map"
    /\ processes > 1
    /\ Len(paths) = 2
    /\ running = {1}
    /\ results[2] = ClaimedOutcome(paths[2])
    /\ ext[paths[2]].raises

\* ----------------------------------------------------------------- C19 ----
\* C19: in a run without worker or storage failure, whatever the input list,
\* the summary is eventually printed and the run stays ended with exactly
\* one summary; a summary is printed only when the commit of every chunk has
\* completed, nothing is printed after it, and for the empty list no commit
\* is made and the summary shows four counters of 0.
C19_SummaryOnceAtEnd ==
    /\ <>[](pc = "done" /\ Cardinality(Summaries) = 1)
    /\ [](Summaries # {} =>
             /\ pc = "done"
             /\ Summaries = {Len(stdout)}
             /\ CommittedChunks = DOMAIN data_chunks
             /\ Len(commitLog) = Len(data_chunks))
    /\ [](NumFiles = 0 =>
             /\ commitLog = << >>
             /\ \A i \in Summaries : stdout[i].stats = ZeroStats)

\* A run over several chunks has ended: every chunk is committed and the
\* summary is the last line printed.
C19_Witness ==
    /\ pc = "done"
    /\ Len(data_chunks) >= 2
    /\ Len(commitLog) = Len(data_chunks)
    /\ Summaries = {Len(stdout)}

====
